---- MODULE Spec2Model ----
(***************************************************************************)
(* Model of the change-tracked concurrent ingestion engine of the F1 ETL   *)
(* pipeline: flows_utils.upload_data (the coordinator), _UploadWorker.run  *)
(* (the worker threads) and DWHMixin.upsert (the per-record protocol).     *)
(*                                                                         *)
(* upload_data is called MaxCalls times in a row, the way                  *)
(* upload_data_from_f1db calls it once per CSV file.  The worker threads   *)
(* of a call are never joined, so they stay part of the state after the    *)
(* call has returned or raised.                                            *)
(***************************************************************************)
EXTENDS Integers, Sequences, FiniteSets, TLC

\* ---- bounds ----
MaxCalls == 2
MaxWorkers == 2
MaxLen == 2
NKeys == 2
NVals == 2
MaxText == 2
NCols == 2
MaxContent == 2
MaxFields == 2
MaxRuns == 3
MaxLines == 3

\* ---- program constants ----
max_retries == 3

Calls == 1..MaxCalls
Workers == 1..MaxWorkers
Keys == 1..NKeys
Vals == 1..NVals

NULL == <<>>

\* A session with nothing to flush.
NoPending == <<>>

\* A parsed record: the primary-key column and one other column.
Records == [id : Keys, name : Vals]

\* The non-empty batches a call can be given.
Batches == UNION {[1..n -> Records] : n \in 1..MaxLen}

\* "|".join(str(value) for value in row.values)
PipeJoin(rec) == <<rec.id, "|", rec.name>>

\* hashlib.sha384(...).hexdigest(): a cryptographic hash, injective on the
\* strings of the model.
Sha384(s) == <<"sha384", s>>

Fingerprint(rec) == Sha384(PipeJoin(rec))

\* pd.to_datetime("now") of the c-th call: one instant per call, increasing.
Now(c) == c

\* Lines 297-304: the Change-Tracked Record of a parsed record.
Tracked(rec, c) ==
    [id |-> rec.id, name |-> rec.name, dwh_hash |-> Fingerprint(rec),
     dwh_valid_from |-> Now(c), dwh_modified_at |-> Now(c)]

\* ------------------------------------------------------------------------
\* The upsert protocol: DWHMixin.upsert and the session's flush at commit
\* ------------------------------------------------------------------------

\* The mapped columns of a target table (DWHMixin plus the table's own).
Columns == {"id", "name", "dwh_hash", "dwh_valid_from", "dwh_modified_at",
            "dwh_valid_to"}

\* Line 82: session.query(cls).filter_by(**pk_values)
Existing(st, data_row) == {r \in st : r.id = data_row.id}

\* NewRow with the validity interval closed at creation.
NewRowClosed(data_row) ==
    [id |-> data_row.id, name |-> data_row.name, dwh_hash |-> data_row.dwh_hash,
     dwh_valid_from |-> data_row.dwh_valid_from,
     dwh_modified_at |-> data_row.dwh_modified_at,
     dwh_valid_to |-> <<data_row.dwh_valid_from>>]

\* Line 104: cls(**data_row.to_dict()); dwh_valid_to is not in the frame.
NewRow(data_row) ==
    [id |-> data_row.id, name |-> data_row.name, dwh_hash |-> data_row.dwh_hash,
     dwh_valid_from |-> data_row.dwh_valid_from,
     dwh_modified_at |-> data_row.dwh_modified_at, dwh_valid_to |-> NULL]

\* UpdateAttrs without the startswith("dwh_") filter of line 96.
UpdateAttrsUnfiltered(data_row) ==
    [id |-> data_row.id, name |-> data_row.name,
     dwh_valid_from |-> data_row.dwh_valid_from,
     dwh_modified_at |-> data_row.dwh_modified_at,
     dwh_mofified_at |-> data_row.dwh_valid_from,
     dwh_hash |-> data_row.dwh_hash]

\* Lines 94-100: the attributes set on the existing object.
UpdateAttrs(data_row) ==
    [id |-> data_row.id, name |-> data_row.name,
     dwh_mofified_at |-> data_row.dwh_valid_from,
     dwh_hash |-> data_row.dwh_hash]

\* Upsert without the fingerprint comparison of lines 86-87.
UpsertAlwaysWrites(existing, data_row) ==
    IF existing = {}
      THEN [ret |-> TRUE, pend |-> <<"insert", NewRow(data_row)>>]
      ELSE LET existing_obj == CHOOSE r \in existing : TRUE IN
           [ret |-> TRUE,
            pend |-> <<"update", existing_obj.id, UpdateAttrs(data_row)>>]

\* Lines 79-109 with commit_ = False: what upsert returns and what it leaves
\* pending in the session, given the row the lookup found (existing is the
\* set of matches, .first() takes one).
Upsert(existing, data_row) ==
    IF existing = {}
      THEN [ret |-> TRUE, pend |-> <<"insert", NewRow(data_row)>>]
      ELSE LET existing_obj == CHOOSE r \in existing : TRUE IN
           IF existing_obj.dwh_hash = data_row.dwh_hash
             THEN [ret |-> FALSE, pend |-> NoPending]
             ELSE [ret |-> TRUE,
                   pend |-> <<"update", existing_obj.id, UpdateAttrs(data_row)>>]

\* The UPDATE the session emits for an object: only attributes that are
\* mapped columns reach the table.
ApplyAttrs(r, attrs) ==
    [col \in Columns |-> IF col \in DOMAIN attrs THEN attrs[col] ELSE r[col]]

\* A table without a primary-key constraint.
CanFlushAny(st, pend) == TRUE

\* The primary-key constraint of the table rejects a second row for a key.
CanFlush(st, pend) ==
    pend # NoPending /\ pend[1] = "insert" => \A r \in st : r.id # pend[2].id

\* Lines 204 / 108: session.commit() flushes the pending change.
Flush(st, pend) ==
    IF pend = NoPending THEN st
    ELSE IF pend[1] = "insert" THEN st \cup {pend[2]}
    ELSE {IF r.id = pend[2] THEN ApplyAttrs(r, pend[3]) ELSE r : r \in st}

VARIABLES
    store,            \* the target table: a set of stored rows
    cpc,              \* cpc[c]: where the coordinator of call c is
    batch,            \* batch[c]: the change-tracked records of call c
    work_queue,       \* work_queue[c]: indices into batch[c] still queued
    total_rows,       \* total_rows[c]
    num_workers,      \* num_workers[c]
    nstarted,         \* nstarted[c]: workers started so far
    nsummed,          \* nsummed[c]: workers whose counter has been added
    modified,         \* modified[c]: the coordinator's running sum
    i,                \* i[c]: the row count the coordinator reports
    wpc,              \* wpc[c][w]: where worker w of call c is
    cur_row,          \* cur_row[c][w]: index of the record the worker holds
    take,             \* take[c][w]: attempt number for cur_row
    pending,          \* pending[c][w]: the session's uncommitted change
    modified_count,   \* modified_count[c][w]
    processed_count,  \* processed_count[c][w]
    claimed,          \* history: claimed[c][k] = times record k was dequeued
    committed,        \* history: committed[c][k] = times record k was committed
    faulted,          \* history: faulted[c] = a storage error hit a worker of c
    exc,              \* exc[c][w]: class of the exception that ended the thread
    df,               \* df[c]: the records call c was given
    configured,       \* configured[c]: the num_workers Variable call c read
    hashing,          \* the fingerprinting of two frames (SpecFingerprint)
    parsing,          \* the parsing of one INSERT statement (SpecParse)
    scraping,         \* the scraping of one SQL file and its upload (SpecScrape)
    attendance        \* the attendance table and its uploader (SpecAttendance)

vars == <<store, cpc, batch, work_queue, total_rows, num_workers, nstarted,
          nsummed, modified, i, wpc, cur_row, take, pending, modified_count,
          processed_count, claimed, committed, faulted, exc, df, configured,
          hashing, parsing, scraping, attendance>>

coordVars == <<cpc, df, configured, batch, work_queue, total_rows, num_workers,
               nstarted, nsummed, modified, i>>
workerVars == <<wpc, cur_row, take, pending, modified_count, processed_count>>
histVars == <<claimed, committed, faulted, exc>>
mainVars == <<store, coordVars, workerVars, histVars>>
pureVars == <<hashing, parsing, scraping, attendance>>

\* What an earlier, completed ingestion (at instant 0) left for a key.
OldRow(k) == NewRow(Tracked([id |-> k, name |-> 1], 0))

\* A pure function of the pipeline that this specification does not run.
NotRun == <<>>

\* No call of upload_data has been made and no thread exists.
Idle ==
    /\ cpc = [c \in Calls |-> "idle"]
    /\ df = [c \in Calls |-> <<>>]
    /\ configured = [c \in Calls |-> <<"unset", 0>>]
    /\ exc = [c \in Calls |-> [w \in Workers |-> "none"]]
    /\ batch = [c \in Calls |-> <<>>]
    /\ work_queue = [c \in Calls |-> <<>>]
    /\ total_rows = [c \in Calls |-> 0]
    /\ num_workers = [c \in Calls |-> 0]
    /\ nstarted = [c \in Calls |-> 0]
    /\ nsummed = [c \in Calls |-> 0]
    /\ modified = [c \in Calls |-> 0]
    /\ i = [c \in Calls |-> 0]
    /\ wpc = [c \in Calls |-> [w \in Workers |-> "new"]]
    /\ cur_row = [c \in Calls |-> [w \in Workers |-> 0]]
    /\ take = [c \in Calls |-> [w \in Workers |-> 0]]
    /\ pending = [c \in Calls |-> [w \in Workers |-> NoPending]]
    /\ modified_count = [c \in Calls |-> [w \in Workers |-> 0]]
    /\ processed_count = [c \in Calls |-> [w \in Workers |-> 0]]
    /\ claimed = [c \in Calls |-> [k \in 1..MaxLen |-> 0]]
    /\ committed = [c \in Calls |-> [k \in 1..MaxLen |-> 0]]
    /\ faulted = [c \in Calls |-> FALSE]

Init ==
    /\ \E ks \in SUBSET Keys : store = {OldRow(k) : k \in ks}
    /\ Idle
    /\ hashing = NotRun
    /\ parsing = NotRun
    /\ scraping = NotRun
    /\ attendance = NotRun

\* ------------------------------------------------------------------------
\* The coordinator: upload_data
\* ------------------------------------------------------------------------

Finished(c) == cpc[c] \in {"returned", "raised"}

\* The values the num_workers Variable can hold: one that int() turns into
\* the integer n, or one that int() rejects.
IntValues == {<<"int", n>> : n \in (0 - 1)..MaxWorkers}
TextValue == <<"text", 0>>

\* The frames a call can be given: a batch, or no record at all.
Frames == Batches \cup {<<>>}

\* df.empty that never sees an empty frame.
EmptyNever(b) == FALSE

\* Line 288: df.empty
Empty(b) == b = <<>>

\* Lines 266-318: the worker count n that int() gave, the early return on an
\* empty frame, then the metadata columns, the queue and total_rows for the
\* parsed records b.  range(num_workers) is empty for n <= 0, and the
\* coordinator is then at its polling loop at once.
Begin(c, b, n) ==
    /\ cpc[c] = "idle"
    /\ df' = [df EXCEPT ![c] = b]
    /\ configured' = [configured EXCEPT ![c] = <<"int", n>>]
    /\ num_workers' = [num_workers EXCEPT ![c] = n]
    /\ IF Empty(b)
         THEN /\ cpc' = [cpc EXCEPT ![c] = "returned"]
              /\ UNCHANGED <<batch, work_queue, total_rows>>
         ELSE /\ batch' = [batch EXCEPT ![c] = [k \in DOMAIN b |-> Tracked(b[k], c)]]
              /\ work_queue' = [work_queue EXCEPT ![c] = [k \in DOMAIN b |-> k]]
              /\ total_rows' = [total_rows EXCEPT ![c] = Len(b)]
              /\ cpc' = [cpc EXCEPT ![c] = IF n <= 0 THEN "poll" ELSE "spawn"]
    /\ UNCHANGED <<pureVars, store, nstarted, nsummed, modified, i, workerVars, histVars>>

\* Lines 269-275: int() rejects the configured value; ValueError is raised
\* before the frame is looked at.
InvalidWorkerCount(c, b) ==
    /\ cpc[c] = "idle"
    /\ df' = [df EXCEPT ![c] = b]
    /\ configured' = [configured EXCEPT ![c] = TextValue]
    /\ cpc' = [cpc EXCEPT ![c] = "raised"]
    /\ UNCHANGED <<pureVars, store, batch, work_queue, total_rows, num_workers,
                   nstarted, nsummed, modified, i, workerVars, histVars>>

\* upload_data is called with some frame and some configured worker count.
UploadData ==
    \/ \E b \in Frames, v \in IntValues : Begin(1, b, v[2])
    \/ \E b \in Frames : InvalidWorkerCount(1, b)

Max(S) == CHOOSE x \in S : \A y \in S : y <= x

\* Against an empty store a batch is determined, up to renaming keys and
\* names, by which records repeat a key and which repeat a name of that key:
\* one batch per such pattern, numbering keys and names by first occurrence.
FirstOccurrence(b) ==
    \A k \in DOMAIN b :
        /\ b[k].id <= 1 + Max({0} \cup {b[j].id : j \in 1..(k - 1)})
        /\ b[k].name <= 1 + Max({0} \cup {b[j].name :
                                   j \in {j \in 1..(k - 1) : b[j].id = b[k].id}})

\* The first of a series of calls, on an empty store.
FirstUploadData ==
    \E b \in {b \in Batches : FirstOccurrence(b)}, n \in 1..MaxWorkers : Begin(1, b, n)

\* The parsed records a batch was made from.
Parsed(tracked) == [k \in DOMAIN tracked |-> [id |-> tracked[k].id, name |-> tracked[k].name]]

\* upload_data is called again on the unchanged records, after the previous
\* call has returned or raised; the configured worker count is the same.
ReUploadData(c) ==
    /\ c > 1
    /\ Finished(c - 1)
    /\ Begin(c, Parsed(batch[c - 1]), num_workers[c - 1])

\* Lines 327-335: worker.start() for the next worker.
StartWorker(c) ==
    /\ cpc[c] = "spawn"
    /\ nstarted[c] < num_workers[c]
    /\ wpc' = [wpc EXCEPT ![c][nstarted[c] + 1] = "get"]
    /\ nstarted' = [nstarted EXCEPT ![c] = @ + 1]
    /\ cpc' = [cpc EXCEPT ![c] =
                 IF nstarted[c] + 1 = num_workers[c] THEN "poll" ELSE "spawn"]
    /\ UNCHANGED <<pureVars, store, df, configured, batch, work_queue, total_rows, num_workers, nsummed,
                   modified, i, cur_row, take, pending, modified_count, processed_count, histVars>>

\* Line 337: while not work_queue.empty()
PollQueue(c) ==
    /\ cpc[c] = "poll"
    /\ cpc' = [cpc EXCEPT ![c] = IF work_queue[c] = <<>> THEN "sum" ELSE "alive"]
    /\ UNCHANGED <<pureVars, store, df, configured, batch, work_queue, total_rows, num_workers, nstarted,
                   nsummed, modified, i, workerVars, histVars>>

IsAlive(c, w) == wpc[c][w] \in {"get", "upsert", "commit"}

\* CheckAlive that never raises.
CheckAliveIgnores(c) ==
    /\ cpc[c] = "alive"
    /\ cpc' = [cpc EXCEPT ![c] = "poll"]
    /\ UNCHANGED <<pureVars, store, df, configured, batch, work_queue, total_rows, num_workers, nstarted,
                   nsummed, modified, i, workerVars, histVars>>

\* Lines 338-341: the liveness check, then sleep(1.0).
CheckAlive(c) ==
    /\ cpc[c] = "alive"
    /\ cpc' = [cpc EXCEPT ![c] =
                 IF \E w \in 1..num_workers[c] : ~IsAlive(c, w)
                   THEN "raised" ELSE "poll"]
    /\ UNCHANGED <<pureVars, store, df, configured, batch, work_queue, total_rows, num_workers, nstarted,
                   nsummed, modified, i, workerVars, histVars>>

\* Lines 343-344: sum(worker.modified_count for worker in workers), one
\* worker's counter per step; after the last one i = total_rows and the
\* call returns.
SumWorker(c) ==
    /\ cpc[c] = "sum"
    /\ nsummed[c] < num_workers[c]
    /\ modified' = [modified EXCEPT ![c] = @ + modified_count[c][nsummed[c] + 1]]
    /\ nsummed' = [nsummed EXCEPT ![c] = @ + 1]
    /\ IF nsummed[c] + 1 = num_workers[c]
         THEN /\ i' = [i EXCEPT ![c] = total_rows[c]]
              /\ cpc' = [cpc EXCEPT ![c] = "returned"]
         ELSE UNCHANGED <<i, cpc>>
    /\ UNCHANGED <<pureVars, store, df, configured, batch, work_queue, total_rows, num_workers, nstarted,
                   workerVars, histVars>>

\* ------------------------------------------------------------------------
\* The worker: _UploadWorker.run
\* ------------------------------------------------------------------------

\* Lines 186-187 raising: load_default_sqlalchemy_connection or the session
\* fails, and the thread ends before its loop.  (When they succeed the
\* thread is at its first queue.get; nothing else observes the connection.)
ConnectFail(c, w) ==
    /\ wpc[c][w] = "get"
    /\ cur_row[c][w] = 0
    /\ wpc' = [wpc EXCEPT ![c][w] = "failed"]
    /\ faulted' = [faulted EXCEPT ![c] = TRUE]
    /\ exc' = [exc EXCEPT ![c][w] = "Exception"]
    /\ UNCHANGED <<pureVars, store, coordVars, cur_row, take, pending, modified_count,
                   processed_count, claimed, committed>>

\* QueueGet that returns the head and leaves it queued.
QueueGetPeek(q) == [item |-> Head(q), rest |-> q]

\* Queue.get: removes and returns the head, atomically.
QueueGet(q) == [item |-> Head(q), rest |-> Tail(q)]

\* Line 190: cur_row = self.queue.get(timeout=1)
Dequeue(c, w) ==
    /\ wpc[c][w] = "get"
    /\ work_queue[c] # <<>>
    /\ LET g == QueueGet(work_queue[c]) IN
        /\ cur_row' = [cur_row EXCEPT ![c][w] = g.item]
        /\ work_queue' = [work_queue EXCEPT ![c] = g.rest]
        /\ claimed' = [claimed EXCEPT ![c][g.item] = @ + 1]
    /\ take' = [take EXCEPT ![c][w] = 0]
    /\ wpc' = [wpc EXCEPT ![c][w] = "upsert"]
    /\ UNCHANGED <<pureVars, store, cpc, df, configured, batch, total_rows, num_workers, nstarted, nsummed,
                   modified, i, pending, modified_count, processed_count,
                   committed, faulted, exc>>

\* Lines 191-193: Empty after the timeout; the worker ends normally.
QueueEmpty(c, w) ==
    /\ wpc[c][w] = "get"
    /\ work_queue[c] = <<>>
    /\ wpc' = [wpc EXCEPT ![c][w] = "done"]
    /\ UNCHANGED <<pureVars, store, coordVars, cur_row, take, pending, modified_count,
                   processed_count, histVars>>

\* Lines 197-203: upsert returns; modified_count += 1 when it returned True.
UpsertRow(c, w) ==
    /\ wpc[c][w] = "upsert"
    /\ LET u == Upsert(Existing(store, batch[c][cur_row[c][w]]),
                       batch[c][cur_row[c][w]]) IN
        /\ pending' = [pending EXCEPT ![c][w] = u.pend]
        /\ modified_count' = [modified_count EXCEPT ![c][w] =
                                IF u.ret THEN @ + 1 ELSE @]
    /\ wpc' = [wpc EXCEPT ![c][w] = "commit"]
    /\ UNCHANGED <<pureVars, store, coordVars, cur_row, take, processed_count, histVars>>

\* The classes of storage error: the transient one and the others.
ErrorClasses == {"OperationalError", "SQLAlchemyError"}

\* Lines 111-120, then 238-244: any SQLAlchemyError inside upsert (transient
\* or not) leaves upsert as UploadError, which run does not retry.
UpsertRaises(c, w) ==
    /\ wpc[c][w] = "upsert"
    /\ wpc' = [wpc EXCEPT ![c][w] = "failed"]
    /\ faulted' = [faulted EXCEPT ![c] = TRUE]
    /\ \E e \in ErrorClasses : exc' = [exc EXCEPT ![c][w] = e]
    /\ UNCHANGED <<pureVars, store, coordVars, cur_row, take, pending, modified_count,
                   processed_count, claimed, committed>>

\* Lines 204-217: commit, processed_count += 1, task_done, next record.
Commit(c, w) ==
    /\ wpc[c][w] = "commit"
    /\ CanFlush(store, pending[c][w])
    /\ store' = Flush(store, pending[c][w])
    /\ pending' = [pending EXCEPT ![c][w] = NoPending]
    /\ processed_count' = [processed_count EXCEPT ![c][w] = @ + 1]
    /\ committed' = [committed EXCEPT ![c][cur_row[c][w]] = @ + 1]
    /\ wpc' = [wpc EXCEPT ![c][w] = "get"]
    /\ UNCHANGED <<pureVars, coordVars, cur_row, take, modified_count, claimed,
                   faulted, exc>>

\* Lines 204, 238-244: the flush violates the primary key (IntegrityError,
\* not an OperationalError): rollback, UploadError, the thread ends.
CommitIntegrityError(c, w) ==
    /\ wpc[c][w] = "commit"
    /\ ~CanFlush(store, pending[c][w])
    /\ pending' = [pending EXCEPT ![c][w] = NoPending]
    /\ wpc' = [wpc EXCEPT ![c][w] = "failed"]
    /\ faulted' = [faulted EXCEPT ![c] = TRUE]
    /\ exc' = [exc EXCEPT ![c][w] = "IntegrityError"]
    /\ UNCHANGED <<pureVars, store, coordVars, cur_row, take, modified_count,
                   processed_count, claimed, committed>>

\* CommitOperationalError without the check of the retry budget.
CommitOperationalErrorUnbounded(c, w) ==
    /\ wpc[c][w] = "commit"
    /\ pending' = [pending EXCEPT ![c][w] = NoPending]
    /\ wpc' = [wpc EXCEPT ![c][w] = "upsert"]
    /\ take' = [take EXCEPT ![c][w] = @ + 1]
    /\ faulted' = [faulted EXCEPT ![c] = TRUE]
    /\ UNCHANGED <<pureVars, store, coordVars, cur_row, modified_count, processed_count,
                   claimed, committed, exc>>

\* Lines 219-236: OperationalError at commit: rollback, then either the
\* retry budget is spent (UploadError) or sleep and the next take.
CommitOperationalError(c, w) ==
    /\ wpc[c][w] = "commit"
    /\ pending' = [pending EXCEPT ![c][w] = NoPending]
    /\ IF take[c][w] = max_retries - 1
         THEN /\ wpc' = [wpc EXCEPT ![c][w] = "failed"]
              /\ exc' = [exc EXCEPT ![c][w] = "OperationalError"]
              /\ UNCHANGED take
         ELSE /\ wpc' = [wpc EXCEPT ![c][w] = "upsert"]
              /\ take' = [take EXCEPT ![c][w] = @ + 1]
              /\ UNCHANGED exc
    /\ faulted' = [faulted EXCEPT ![c] = TRUE]
    /\ UNCHANGED <<pureVars, store, coordVars, cur_row, modified_count, processed_count,
                   claimed, committed>>

\* CommitOtherError handled the way an OperationalError is.
CommitOtherErrorRetried(c, w) ==
    /\ wpc[c][w] = "commit"
    /\ pending' = [pending EXCEPT ![c][w] = NoPending]
    /\ IF take[c][w] = max_retries - 1
         THEN /\ wpc' = [wpc EXCEPT ![c][w] = "failed"]
              /\ UNCHANGED take
         ELSE /\ wpc' = [wpc EXCEPT ![c][w] = "upsert"]
              /\ take' = [take EXCEPT ![c][w] = @ + 1]
    /\ faulted' = [faulted EXCEPT ![c] = TRUE]
    /\ exc' = [exc EXCEPT ![c][w] = "SQLAlchemyError"]
    /\ UNCHANGED <<pureVars, store, coordVars, cur_row, modified_count,
                   processed_count, claimed, committed>>

\* Lines 238-244: any other exception at commit: rollback, UploadError.
CommitOtherError(c, w) ==
    /\ wpc[c][w] = "commit"
    /\ pending' = [pending EXCEPT ![c][w] = NoPending]
    /\ wpc' = [wpc EXCEPT ![c][w] = "failed"]
    /\ faulted' = [faulted EXCEPT ![c] = TRUE]
    /\ exc' = [exc EXCEPT ![c][w] = "SQLAlchemyError"]
    /\ UNCHANGED <<pureVars, store, coordVars, cur_row, take, modified_count,
                   processed_count, claimed, committed>>

\* The steps of the worker threads of call c.
WorkerStep(c) ==
    \/ \E w \in Workers : Dequeue(c, w)
    \/ \E w \in Workers : QueueEmpty(c, w)
    \/ \E w \in Workers : UpsertRow(c, w)
    \/ \E w \in Workers : Commit(c, w)
    \/ \E w \in Workers : CommitIntegrityError(c, w)

\* The storage errors the environment can raise in a worker of call c.
WorkerFault(c) ==
    \/ \E w \in Workers : ConnectFail(c, w)
    \/ \E w \in Workers : UpsertRaises(c, w)
    \/ \E w \in Workers : CommitOperationalError(c, w)
    \/ \E w \in Workers : CommitOtherError(c, w)

CoordStep(c) ==
    \/ StartWorker(c)
    \/ PollQueue(c)
    \/ CheckAlive(c)
    \/ SumWorker(c)

\* One call of upload_data, with storage errors.
Next ==
    \/ UploadData
    \/ CoordStep(1)
    \/ WorkerStep(1)
    \/ WorkerFault(1)

Spec == Init /\ [][Next]_vars

\* The coordinator and the worker threads are scheduled fairly; storage
\* errors may or may not occur.
\* (The store starts empty or with the row of one key: the keys are
\* interchangeable and no step of a thread waits for the store.)
InitLive == Init /\ store \subseteq {OldRow(1)}

SpecLive ==
    /\ InitLive /\ [][Next]_vars
    /\ WF_vars(CoordStep(1)) /\ WF_vars(WorkerStep(1))

\* Consecutive calls of upload_data on the same records.
NextCalls ==
    \/ FirstUploadData
    \/ \E c \in Calls : ReUploadData(c)
    \/ \E c \in Calls : CoordStep(c)
    \/ \E c \in Calls : WorkerStep(c)

InitCalls == Init /\ store = {}

SpecCalls == InitCalls /\ [][NextCalls]_vars

\* ------------------------------------------------------------------------
\* The fingerprint of a frame row: upload_data lines 296-304, on field
\* values that are texts or absent
\* ------------------------------------------------------------------------

\* A text is the sequence of its characters.
FieldChars == {"a", "|"}
Texts == UNION {[1..n -> FieldChars] : n \in 0..MaxText}

\* The two representations of an absent value in a frame: None and np.nan.
None == [kind |-> "None", text |-> <<>>]
NaN == [kind |-> "nan", text |-> <<>>]

FieldValues == {[kind |-> "text", text |-> t] : t \in Texts} \cup {None, NaN}

\* The rows of a frame with NCols columns.
FrameRows == [1..NCols -> FieldValues]

\* str(value)
Str(v) ==
    IF v.kind = "None" THEN <<"N", "o", "n", "e">>
    ELSE IF v.kind = "nan" THEN <<"n", "a", "n">>
    ELSE v.text

\* "|".join(parts)
RECURSIVE Join(_)
Join(parts) ==
    IF parts = <<>> THEN <<>>
    ELSE IF Len(parts) = 1 THEN parts[1]
    ELSE parts[1] \o <<"|">> \o Join(Tail(parts))

\* Lines 297-302: the dwh_hash of a row.
RowFingerprint(row) == Sha384(Join([k \in DOMAIN row |-> Str(row[k])]))

\* Line 304: df.replace({np.nan: None})
ReplaceNaN(row) == [k \in DOMAIN row |-> IF row[k] = NaN THEN None ELSE row[k]]

\* Lines 297-304 in the order of the code: the fingerprint of the row as
\* given, the instant, then the replacement of np.nan.
TrackedRow(row, c) ==
    [fields |-> ReplaceNaN(row), dwh_hash |-> RowFingerprint(row),
     dwh_valid_from |-> Now(c), dwh_modified_at |-> Now(c)]

\* Two rows, each with the call that ingests it.
HashInputs ==
    [pc : {"frames"}, rows : [1..2 -> FrameRows], call : [1..2 -> Calls],
     out : {<<>>}]

InitFingerprint ==
    /\ store = {}
    /\ Idle
    /\ parsing = NotRun
    /\ scraping = NotRun
    /\ attendance = NotRun
    /\ hashing \in HashInputs

\* Lines 296-304 applied to both rows.
FingerprintRows ==
    /\ hashing.pc = "frames"
    /\ hashing' = [hashing EXCEPT
                     !.pc = "tracked",
                     !.out = [k \in 1..2 |-> TrackedRow(hashing.rows[k], hashing.call[k])]]
    /\ UNCHANGED <<mainVars, parsing, scraping, attendance>>

NextFingerprint == FingerprintRows

SpecFingerprint == InitFingerprint /\ [][NextFingerprint]_vars

\* ------------------------------------------------------------------------
\* The parser: _parse_insert_statements of f1db/scrape.py, on the VALUES
\* block of one INSERT statement.  A text is the sequence of its characters.
\* ------------------------------------------------------------------------

Quote == "'"
Backslash == "\\"

\* The character at position p of s, "" past either end.
At(s, p) == IF p >= 1 /\ p <= Len(s) THEN s[p] ELSE ""

From(s, p) == SubSeq(s, p, Len(s))

RECURSIVE Concat(_)
Concat(ss) == IF ss = <<>> THEN <<>> ELSE Head(ss) \o Concat(Tail(ss))

\* '(?:\\'|[^'])*' : the positions after the star that starts at q, in the
\* order the regex engine tries them (backslash-quote first, then any
\* character but a quote, greedy).
RECURSIVE StarEnds(_, _)
StarEnds(s, q) ==
    (IF At(s, q) = Backslash /\ At(s, q + 1) = Quote
       THEN StarEnds(s, q + 2) ELSE <<>>)
    \o (IF At(s, q) \notin {"", Quote} THEN StarEnds(s, q + 1) ELSE <<>>)
    \o <<q>>

\* The positions after a quoted literal that starts at p, in trial order.
LiteralEnds(s, p) ==
    IF At(s, p) # Quote THEN <<>>
    ELSE LET qs == StarEnds(s, p + 1) IN
         [k \in 1..Len(SelectSeq(qs, LAMBDA q : At(s, q) = Quote)) |->
            SelectSeq(qs, LAMBDA q : At(s, q) = Quote)[k] + 1]

\* [^()']+ : the positions after a run that starts at p, longest first.
RECURSIVE RunLength(_, _)
RunLength(s, p) ==
    IF At(s, p) \in {"", "(", ")", Quote} THEN 0 ELSE 1 + RunLength(s, p + 1)

RunEnds(s, p) == [k \in 1..RunLength(s, p) |-> p + RunLength(s, p) + 1 - k]

\* (?:[^()']+|'...')+\) from p: the position after the closing parenthesis
\* of the first match the engine finds, 0 when there is none.
RECURSIVE ItemsThenClose(_, _)
RECURSIVE FirstMatch(_, _)
ItemsThenClose(s, p) == FirstMatch(s, RunEnds(s, p) \o LiteralEnds(s, p))

FirstMatch(s, ends) ==
    IF ends = <<>> THEN 0
    ELSE LET more == ItemsThenClose(s, Head(ends)) IN
         IF more # 0 THEN more
         ELSE IF At(s, Head(ends)) = ")" THEN Head(ends) + 1
         ELSE FirstMatch(s, Tail(ends))

\* Line 53: re.findall of the tuple pattern, scanning from position p.
RECURSIVE FindTuples(_, _)
FindTuples(s, p) ==
    IF p > Len(s) THEN <<>>
    ELSE IF s[p] = "(" /\ ItemsThenClose(s, p + 1) # 0
      THEN <<SubSeq(s, p, ItemsThenClose(s, p + 1) - 1)>>
           \o FindTuples(s, ItemsThenClose(s, p + 1))
      ELSE FindTuples(s, p + 1)

\* str.strip(chars): the leading and trailing characters in cs removed.
RECURSIVE Strip(_, _)
Strip(s, cs) ==
    IF s = <<>> THEN s
    ELSE IF s[1] \in cs THEN Strip(Tail(s), cs)
    ELSE IF s[Len(s)] \in cs THEN Strip(SubSeq(s, 1, Len(s) - 1), cs)
    ELSE s

\* The lookahead (?=(?:[^']*'[^']*')*[^']*$): the rest of the text holds an
\* even number of quote characters.
EvenQuotes(s) == Cardinality({k \in DOMAIN s : s[k] = Quote}) % 2 = 0

\* ,\s* consumed: the text after the whitespace that follows a comma.
RECURSIVE SkipSpaces(_)
SkipSpaces(s) == IF s # <<>> /\ s[1] = " " THEN SkipSpaces(Tail(s)) ELSE s

\* Line 58: re.split at every comma the lookahead accepts.
RECURSIVE SplitFields(_)
SplitFields(s) ==
    LET ks == {k \in DOMAIN s : s[k] = "," /\ EvenQuotes(From(s, k + 1))} IN
    IF ks = {} THEN <<s>>
    ELSE LET k == CHOOSE j \in ks : \A m \in ks : j <= m IN
         <<SubSeq(s, 1, k - 1)>> \o SplitFields(SkipSpaces(From(s, k + 1)))

\* str.upper on the letters of the model.
UpperChar(ch) ==
    IF ch = "n" THEN "N" ELSE IF ch = "u" THEN "U" ELSE IF ch = "l" THEN "L"
    ELSE IF ch = "a" THEN "A" ELSE ch

Upper(s) == [k \in DOMAIN s |-> UpperChar(s[k])]

\* str.replace(old, new) for a two-character old and a one-character new:
\* left to right, without overlap.
RECURSIVE Replace(_, _, _)
Replace(s, old, new) ==
    IF s = <<>> THEN s
    ELSE IF Len(s) >= 2 /\ SubSeq(s, 1, 2) = old
      THEN new \o Replace(From(s, 3), old, new)
      ELSE <<s[1]>> \o Replace(Tail(s), old, new)

\* \d
Digits == {"0", "1", "2", "3", "4", "5", "6", "7", "8", "9"}

DigitValue(ch) ==
    CASE ch = "0" -> 0 [] ch = "1" -> 1 [] ch = "2" -> 2 [] ch = "3" -> 3
      [] ch = "4" -> 4 [] ch = "5" -> 5 [] ch = "6" -> 6 [] ch = "7" -> 7
      [] ch = "8" -> 8 [] ch = "9" -> 9

IsDigits(s) == s # <<>> /\ \A k \in DOMAIN s : s[k] \in Digits

Unsigned(s) == IF s # <<>> /\ s[1] = "-" THEN Tail(s) ELSE s

\* ^-?\d+$
IsIntegerToken(s) == IsDigits(Unsigned(s))

\* ^-?\d+\.\d+$
IsFloatToken(s) ==
    \E k \in DOMAIN Unsigned(s) :
        /\ Unsigned(s)[k] = "."
        /\ IsDigits(SubSeq(Unsigned(s), 1, k - 1))
        /\ IsDigits(From(Unsigned(s), k + 1))

\* The number a digit string denotes.
RECURSIVE Number(_)
Number(s) ==
    IF s = <<>> THEN 0 ELSE 10 * Number(SubSeq(s, 1, Len(s) - 1)) + DigitValue(s[Len(s)])

Sign(s) == IF s # <<>> /\ s[1] = "-" THEN 0 - 1 ELSE 1

\* The values a field can get: None, a str, an int (num), a float (num
\* scaled by ten to the power frac).
NoneField == [type |-> "NoneType", text |-> <<>>, num |-> 0, frac |-> 0]
StrField(t) == [type |-> "str", text |-> t, num |-> 0, frac |-> 0]
IntField(s) == [type |-> "int", text |-> <<>>, num |-> Sign(s) * Number(Unsigned(s)), frac |-> 0]
FloatField(s) ==
    LET u == Unsigned(s)
        k == CHOOSE j \in DOMAIN u : u[j] = "." IN
    [type |-> "float", text |-> <<>>,
     num |-> Sign(s) * Number(SubSeq(u, 1, k - 1) \o From(u, k + 1)),
     frac |-> Len(u) - k]

\* Lines 59-69: the value of one token.
ParseToken(token) ==
    LET x == Strip(token, {" "}) IN
    IF Upper(x) = <<"N", "U", "L", "L">> \/ x = <<>> THEN NoneField
    ELSE IF x[1] = Quote /\ x[Len(x)] = Quote
      THEN StrField(Replace(Replace(SubSeq(x, 2, Len(x) - 1),
                                    <<Backslash, Quote>>, <<Quote>>),
                            <<Quote, Quote>>, <<Quote>>))
    ELSE IF IsFloatToken(x) THEN FloatField(x)
    ELSE IF IsIntegerToken(x) THEN IntField(x)
    ELSE StrField(x)

\* Lines 72-73: the correction of one known row of the dump.
BarRow006 ==
    <<StrField(<<"b", "a", "r", "-", "0", "0", "7">>), StrField(<<"b", "a", "r">>),
      StrField(<<"0", "0", "6">>), StrField(<<"B", "A", "R", " ", "0", "0", "6">>)>>
BarRow007 ==
    <<StrField(<<"b", "a", "r", "-", "0", "0", "7">>), StrField(<<"b", "a", "r">>),
      StrField(<<"0", "0", "7">>), StrField(<<"B", "A", "R", " ", "0", "0", "7">>)>>

DataPatch(parts) == IF parts = BarRow006 THEN BarRow007 ELSE parts

\* Lines 56-74: the row made from one extracted tuple, with the tokens the
\* split gave.
ParseTuple(val) ==
    LET tokens == SplitFields(Strip(val, {"(", ")"})) IN
    [tokens |-> tokens,
     parts |-> DataPatch([k \in DOMAIN tokens |-> ParseToken(tokens[k])])]

\* What the author of a dump writes for one field: its characters (src),
\* the kind of value meant, and for a quoted literal the text meant (val).
Bare(kind, src) == [kind |-> kind, src |-> src, val |-> <<>>]

BareValues ==
    {Bare("null", <<"N", "U", "L", "L">>), Bare("null", <<"n", "u", "l", "l">>),
     Bare("null", <<"N", "u", "l", "l">>), Bare("null", <<>>),
     Bare("int", <<"1">>), Bare("int", <<"-", "1">>), Bare("int", <<"1", "0">>),
     Bare("float", <<"1", ".", "0">>), Bare("float", <<"-", "1", ".", "1">>),
     Bare("text", <<"a">>), Bare("text", <<"1", "a">>), Bare("text", <<"1", ".">>),
     Bare("text", <<"-">>)}

\* The pieces of a quoted literal: what is written and the text it stands
\* for.  The escaped quotes are backslash-quote and the doubled quote.
Piece(src, val) == [src |-> src, val |-> val]

Pieces ==
    {Piece(<<"a">>, <<"a">>), Piece(<<"1">>, <<"1">>),
     Piece(<<"N", "U", "L", "L">>, <<"N", "U", "L", "L">>),
     Piece(<<",">>, <<",">>), Piece(<<"(">>, <<"(">>), Piece(<<")">>, <<")">>),
     Piece(<<Backslash, Quote>>, <<Quote>>), Piece(<<Quote, Quote>>, <<Quote>>)}

Quoted(ps) ==
    [kind |-> "quoted",
     src |-> <<Quote>> \o Concat([k \in DOMAIN ps |-> ps[k].src]) \o <<Quote>>,
     val |-> Concat([k \in DOMAIN ps |-> ps[k].val])]

QuotedValues == {Quoted(ps) : ps \in UNION {[1..n -> Pieces] : n \in 0..MaxContent}}

WrittenValues == BareValues \cup QuotedValues

\* The written tuples: 1..MaxFields values.
WrittenTuples == UNION {[1..n -> WrittenValues] : n \in 1..MaxFields}

\* The text of a written tuple: (v1, v2, ...).
RECURSIVE CommaSeparated(_)
CommaSeparated(ws) ==
    IF Len(ws) = 1 THEN ws[1].src
    ELSE ws[1].src \o <<",", " ">> \o CommaSeparated(Tail(ws))

TupleText(ws) == <<"(">> \o CommaSeparated(ws) \o <<")">>

InitParse ==
    /\ store = {}
    /\ Idle
    /\ hashing = NotRun
    /\ scraping = NotRun
    /\ attendance = NotRun
    /\ \E ws \in WrittenTuples :
         parsing = [pc |-> "block", written |-> ws, values_block |-> TupleText(ws),
                    value_tuples |-> <<>>, rows |-> <<>>]

\* Line 53: value_tuples = re.findall(...)
FindValues ==
    /\ parsing.pc = "block"
    /\ parsing' = [parsing EXCEPT !.pc = "tuples",
                                  !.value_tuples = FindTuples(parsing.values_block, 1)]
    /\ UNCHANGED <<mainVars, hashing, scraping, attendance>>

\* Lines 56-74: one iteration of `for val in value_tuples`.
ParseNextTuple ==
    /\ parsing.pc = "tuples"
    /\ Len(parsing.rows) < Len(parsing.value_tuples)
    /\ parsing' = [parsing EXCEPT
                     !.rows = Append(@, ParseTuple(parsing.value_tuples[Len(parsing.rows) + 1]))]
    /\ UNCHANGED <<mainVars, hashing, scraping, attendance>>

\* The loop is over: the rows are handed to the DataFrame of line 76.
RowsDone ==
    /\ parsing.pc = "tuples"
    /\ Len(parsing.rows) = Len(parsing.value_tuples)
    /\ parsing' = [parsing EXCEPT !.pc = "rows"]
    /\ UNCHANGED <<mainVars, hashing, scraping, attendance>>

NextParse == FindValues \/ ParseNextTuple \/ RowsDone

SpecParse == InitParse /\ [][NextParse]_vars

\* ------------------------------------------------------------------------
\* The scraping of one SQL file (scrape_data_from_f1db with
\* _parse_insert_statements of f1db/scrape.py) and the upload of the files
\* it saved (upload_data_from_f1db of f1db/upload.py).
\* ------------------------------------------------------------------------

\* The grave accent (U+0060) that quotes a name in SQL; a TLA+ string
\* cannot hold the character itself.
Backtick == "U+0060"

\* str.strip() without argument and \s of the patterns.
Whitespace == {" ", "\n", "\t"}

\* \w
WordChars ==
    Digits \cup {"_"}
    \cup {"a", "b", "c", "d", "e", "f", "g", "h", "i", "j", "k", "l", "m",
          "n", "o", "p", "q", "r", "s", "t", "u", "v", "w", "x", "y", "z"}
    \cup {"A", "B", "C", "D", "E", "F", "G", "H", "I", "J", "K", "L", "M",
          "N", "O", "P", "Q", "R", "S", "T", "U", "V", "W", "X", "Y", "Z"}

\* The two tables of the model, in the order of TABLES_MAP (models.py).
engine_manufacturer == 
    <<"e", "n", "g", "i", "n", "e", "_", "m", "a", "n", "u", "f",
        "a", "c", "t", "u", "r", "e", "r">>
engine == <<"e", "n", "g", "i", "n", "e">>

TABLES_MAP == <<engine_manufacturer, engine>>

\* str.startswith(lit) from position p of s.
StartsWith(s, p, lit) ==
    p >= 1 /\ p + Len(lit) - 1 <= Len(s) /\ SubSeq(s, p, p + Len(lit) - 1) = lit

\* The position after the longest run of characters of cs that starts at p.
RECURSIVE SpanEnd(_, _, _)
SpanEnd(s, p, cs) == IF At(s, p) \in cs THEN SpanEnd(s, p + 1, cs) ELSE p

\* str.rstrip(chars)
RECURSIVE RStrip(_, _)
RStrip(s, cs) ==
    IF s # <<>> /\ s[Len(s)] \in cs THEN RStrip(SubSeq(s, 1, Len(s) - 1), cs) ELSE s

\* str.split(sep) for a one-character separator.
RECURSIVE Split(_, _)
Split(s, sep) ==
    LET ks == {k \in DOMAIN s : s[k] = sep} IN
    IF ks = {} THEN <<s>>
    ELSE LET k == CHOOSE j \in ks : \A m \in ks : j <= m IN
         <<SubSeq(s, 1, k - 1)>> \o Split(From(s, k + 1), sep)

\* sep.join(ss)
RECURSIVE JoinBy(_, _)
JoinBy(ss, sep) ==
    IF ss = <<>> THEN <<>>
    ELSE IF Len(ss) = 1 THEN ss[1]
    ELSE ss[1] \o sep \o JoinBy(Tail(ss), sep)

INSERT_INTO == <<"I", "N", "S", "E", "R", "T", " ", "I", "N", "T", "O">>
VALUES == <<"V", "A", "L", "U", "E", "S">>

\* \)\s+VALUES\s+ at position g: the position where the values block
\* starts, 0 when the pattern does not match there.
AfterColumns(s, g) ==
    LET h == SpanEnd(s, g + 1, Whitespace)
        v == SpanEnd(s, h + Len(VALUES), Whitespace) IN
    IF /\ At(s, g) = ")"
       /\ h > g + 1
       /\ StartsWith(s, h, VALUES)
       /\ v > h + Len(VALUES)
      THEN v ELSE 0

\* Line 45: re.search found nothing.
NoMatch ==
    [matched |-> FALSE, table |-> <<>>, columns_str |-> <<>>, values_block |-> <<>>]

\* Lines 40-44: the statement pattern tried at position p.  The character
\* classes that follow one another are disjoint, so each greedy \s+, \w+
\* and optional backtick has one way to match; the lazy (.*?) ends at the first closing
\* parenthesis that \s+VALUES\s+ follows, and (.*) takes the rest.
MatchAt(s, p) ==
    LET a == p + Len(INSERT_INTO)
        b == SpanEnd(s, a, Whitespace)
        c == IF At(s, b) = Backtick THEN b + 1 ELSE b
        d == SpanEnd(s, c, WordChars)
        e == IF At(s, d) = Backtick THEN d + 1 ELSE d
        f == SpanEnd(s, e, Whitespace)
        gs == {g \in (f + 1)..Len(s) : AfterColumns(s, g) # 0} IN
    IF /\ StartsWith(s, p, INSERT_INTO)
       /\ b > a /\ d > c /\ f > e
       /\ At(s, f) = "("
       /\ gs # {}
      THEN LET g == CHOOSE j \in gs : \A m \in gs : j <= m IN
           [matched |-> TRUE, table |-> SubSeq(s, c, d - 1),
            columns_str |-> SubSeq(s, f + 1, g - 1),
            values_block |-> From(s, AfterColumns(s, g))]
      ELSE NoMatch

\* re.search: the match at the first position that has one.
Search(stmt) ==
    LET ps == {p \in DOMAIN stmt : MatchAt(stmt, p).matched} IN
    IF ps = {} THEN NoMatch
    ELSE MatchAt(stmt, CHOOSE p \in ps : \A m \in ps : p <= m)

\* Lines 49-50.
ColumnsOf(columns_str) ==
    LET cols == Split(columns_str, ",") IN
    [k \in DOMAIN cols |-> Strip(cols[k], {" ", Backtick})]

\* Lines 49-74: the rows of the values block of a statement.
RowsOf(block) ==
    LET value_tuples == FindTuples(RStrip(Strip(block, Whitespace), {";"}), 1) IN
    [k \in DOMAIN value_tuples |-> ParseTuple(value_tuples[k]).parts]

\* Line 76: pd.DataFrame(rows, columns=columns) raises ValueError when the
\* rows do not have one field per column (the rows of one statement of the
\* model have one length).
DataFrameRaises(rows, columns) ==
    \E k \in DOMAIN rows : Len(rows[k]) # Len(columns)

DataFrame(rows, columns) == [columns |-> columns, rows |-> rows]

\* Lines 101-103: the lines kept as statements, stripped.
RECURSIVE Statements(_)
Statements(lines) ==
    IF lines = <<>> THEN <<>>
    ELSE IF StartsWith(Strip(Head(lines), Whitespace), 1, INSERT_INTO)
      THEN <<Strip(Head(lines), Whitespace)>> \o Statements(Tail(lines))
      ELSE Statements(Tail(lines))

\* The decimal digits of a natural number: str(i) of line 112.
DigitChar(n) == CHOOSE ch \in Digits : DigitValue(ch) = n

RECURSIVE Decimal(_)
Decimal(n) ==
    IF n < 10 THEN <<DigitChar(n)>>
    ELSE Decimal(n \div 10) \o <<DigitChar(n % 10)>>

CSV == <<".", "c", "s", "v">>

\* Line 112: f"{table}_{i}.csv"
FileName(table, n) == table \o <<"_">> \o Decimal(n) \o CSV

\* Lines 110-114: the files written for the parsed data; i counts from 0.
SavedFiles(dfs) ==
    UNION {{[filename |-> FileName(table, k - 1), saved |-> dfs[table][k]] :
              k \in DOMAIN dfs[table]} : table \in DOMAIN dfs}

\* str.endswith(lit)
EndsWith(s, lit) == Len(s) >= Len(lit) /\ From(s, Len(s) - Len(lit) + 1) = lit

\* os.path.splitext(filename)[0]: the name up to its last dot.
SplitExtRoot(filename) ==
    LET ks == {k \in DOMAIN filename : k > 1 /\ filename[k] = "."} IN
    IF ks = {} THEN filename ELSE SubSeq(filename, 1, Max(ks) - 1)

\* Lines 104-107: the entry of data made for a file.
DataEntry(filename) ==
    LET splitted == Split(SplitExtRoot(filename), "_") IN
    [table_name |-> JoinBy(SubSeq(splitted, 1, Len(splitted) - 1), <<"_">>),
     table_id |-> splitted[Len(splitted)],
     file_path |-> filename]

\* Lines 74-107: one entry for each name of the listing that ends in .csv.
DataOf(listing) ==
    LET csvs == SelectSeq(listing, LAMBDA filename : EndsWith(filename, CSV)) IN
    [k \in DOMAIN csvs |-> DataEntry(csvs[k])]

\* The characters of the file names in the order of their code points: the
\* order in which Python compares strings.
CodePoints ==
    <<"0", "1", "2", "3", "4", "5", "6", "7", "8", "9", "_",
      "a", "b", "c", "d", "e", "f", "g", "h", "i", "j", "k", "l", "m",
      "n", "o", "p", "q", "r", "s", "t", "u", "v", "w", "x", "y", "z">>

CodePoint(ch) == CHOOSE k \in DOMAIN CodePoints : CodePoints[k] = ch

\* a < b for two strings.
RECURSIVE StrLess(_, _)
StrLess(a, b) ==
    IF b = <<>> THEN FALSE
    ELSE IF a = <<>> THEN TRUE
    ELSE IF a[1] = b[1] THEN StrLess(Tail(a), Tail(b))
    ELSE CodePoint(a[1]) < CodePoint(b[1])

\* A sort key that leaves out the index of the file.
SortKeyTableOnly(x) == <<x.table_name, 0>>

\* Line 112: key=lambda x: (x[0], int(x[2]))
SortKey(x) == <<x.table_name, Number(x.table_id)>>

\* The comparison of two keys: tuples compare field by field.
KeyLess(x, y) ==
    \/ StrLess(SortKey(x)[1], SortKey(y)[1])
    \/ SortKey(x)[1] = SortKey(y)[1] /\ SortKey(x)[2] < SortKey(y)[2]

\* Line 112: sorted(data, key=...), a stable sort.
RECURSIVE InsertSorted(_, _)
InsertSorted(sorted, x) ==
    IF sorted = <<>> THEN <<x>>
    ELSE IF KeyLess(x, Head(sorted)) THEN <<x>> \o sorted
    ELSE <<Head(sorted)>> \o InsertSorted(Tail(sorted), x)

RECURSIVE Sorted(_)
Sorted(data) ==
    IF data = <<>> THEN <<>>
    ELSE InsertSorted(Sorted(SubSeq(data, 1, Len(data) - 1)), data[Len(data)])

\* os.listdir: the names of the files, in an order the system chooses.
Listings(files) ==
    LET names == {f.filename : f \in files} IN
    {l \in [1..Cardinality(names) -> names] :
        \A j, k \in DOMAIN l : l[j] = l[k] => j = k}

\* Lines 113-120: the nested loops over TABLES_MAP and data visit the pairs
\* (table, entry) in this order; the n-th pair.
PairTable(data, n) == TABLES_MAP[((n - 1) \div Len(data)) + 1]
PairEntry(data, n) == data[((n - 1) % Len(data)) + 1]

\* The pairs after the at-th whose entry is of the table of the pair.
NextPairs(data, at) ==
    {n \in (at + 1)..(Len(TABLES_MAP) * Len(data)) :
        PairTable(data, n) = PairEntry(data, n).table_name}

\* ---- the written files ----

\* What the author of a dump writes in a field, with the value it stands
\* for: an integer, a quoted text, NULL.
IntCell(n) == [kind |-> "int", num |-> n, val |-> <<>>]
TextCell(t) == [kind |-> "quoted", num |-> 0, val |-> t]

CellText(c) ==
    CASE c.kind = "int" -> Decimal(c.num)
      [] c.kind = "quoted" -> <<Quote>> \o c.val \o <<Quote>>

CellField(c) ==
    CASE c.kind = "int" -> [type |-> "int", text |-> <<>>, num |-> c.num, frac |-> 0]
      [] c.kind = "quoted" -> StrField(c.val)

RowText(cells) ==
    <<"(">> \o JoinBy([k \in DOMAIN cells |-> CellText(cells[k])], <<",", " ">>)
    \o <<")">>

\* The line of a statement: plain, or indented with the names in backticks.
StatementText(style, table, columns, rows) ==
    LET tick == IF style = "plain" THEN <<>> ELSE <<Backtick>>
        lead == IF style = "plain" THEN <<>> ELSE <<" ", " ">> IN
    lead \o INSERT_INTO \o <<" ">> \o tick \o table \o tick \o <<" ", "(">>
    \o JoinBy([k \in DOMAIN columns |-> tick \o columns[k] \o tick], <<",", " ">>)
    \o <<")", " ">> \o VALUES \o <<" ">>
    \o JoinBy([k \in DOMAIN rows |-> RowText(rows[k])], <<",", " ">>)
    \o <<";", "\n">>

WrittenStatement(style, table, columns, rows) ==
    [kind |-> "statement", table |-> table, columns |-> columns, rows |-> rows,
     text |-> StatementText(style, table, columns, rows)]

WrittenLine(kind, text) ==
    [kind |-> kind, table |-> <<>>, columns |-> <<>>, rows |-> <<>>, text |-> text]

id == <<"i", "d">>
name == <<"n", "a", "m", "e">>

\* The rows of the one-column statements.
RowLists ==
    {<<<<IntCell(1)>>>>, <<<<IntCell(2)>>>>,
     <<<<IntCell(1)>>, <<IntCell(2)>>>>, <<<<IntCell(2)>>, <<IntCell(1)>>>>}

\* The lines of a dump: statements of the two tables, lines that are no
\* statement (blank, comment, DDL), statements that lack the column list
\* or whose values are on the following lines, and a statement whose
\* tuple has more values than columns.
WrittenLines ==
    {WrittenStatement("plain", table, <<id>>, rows) :
        table \in {engine_manufacturer, engine}, rows \in RowLists}
    \cup {WrittenStatement("ticks", engine, <<id, name>>,
                            <<<<IntCell(1), TextCell(<<"a">>)>>>>)}
    \cup {WrittenLine("other", <<"\n">>),
          WrittenLine("other", 
    <<"-", "-", " ", "I", "N", "S", "E", "R", "T", " ", "I", "N",
        "T", "O", " ", "e", "n", "g", "i", "n", "e", " ", "(", "i",
        "d", ")", " ", "V", "A", "L", "U", "E", "S", " ", "(", "1",
        ")", ";", "\n">>),
          WrittenLine("other", 
    <<"C", "R", "E", "A", "T", "E", " ", "T", "A", "B", "L", "E",
        " ", "e", "n", "g", "i", "n", "e", " ", "(", "i", "d", ")",
        ";", "\n">>)}
    \cup {WrittenLine("malformed", 
    <<"I", "N", "S", "E", "R", "T", " ", "I", "N", "T", "O", " ",
        "e", "n", "g", "i", "n", "e", " ", "V", "A", "L", "U", "E",
        "S", " ", "(", "1", ")", ";", "\n">>),
          WrittenLine("malformed", 
    <<"I", "N", "S", "E", "R", "T", " ", "I", "N", "T", "O", " ",
        "e", "n", "g", "i", "n", "e", " ", "(", "i", "d", ")", " ",
        "V", "A", "L", "U", "E", "S", "\n">>)}
    \cup {WrittenLine("mismatched", 
    <<"I", "N", "S", "E", "R", "T", " ", "I", "N", "T", "O", " ",
        "e", "n", "g", "i", "n", "e", " ", "(", "i", "d", ")", " ",
        "V", "A", "L", "U", "E", "S", " ", "(", "1", ",", " ", "2",
        ")", ";", "\n">>)}

WrittenFiles == UNION {[1..n -> WrittenLines] : n \in 1..MaxLines}

\* Lines 99-100: file.readlines() of a written file.
ReadLines(written) == [k \in DOMAIN written |-> written[k].text]

InitScrape ==
    /\ store = {}
    /\ Idle
    /\ hashing = NotRun
    /\ parsing = NotRun
    /\ attendance = NotRun
    /\ \E written \in WrittenFiles :
         scraping = [pc |-> "read", written |-> written,
                     lines |-> ReadLines(written), statements |-> <<>>,
                     k |-> 0, dfs |-> <<>>, files |-> {}, data |-> <<>>,
                     at |-> 0, uploaded |-> <<>>]

\* Lines 101-103: the statements of the file.
ReadStatements ==
    /\ scraping.pc = "read"
    /\ scraping' = [scraping EXCEPT !.pc = "parse",
                                    !.statements = Statements(scraping.lines)]
    /\ UNCHANGED <<mainVars, hashing, parsing, attendance>>

\* Lines 78-80: dfs[table].append(df), the list created on first use.
Appended(dfs, table, frame) ==
    IF table \in DOMAIN dfs THEN [dfs EXCEPT ![table] = Append(@, frame)]
    ELSE [t \in DOMAIN dfs \cup {table} |->
            IF t = table THEN <<frame>> ELSE dfs[t]]

\* Lines 39-80: one statement that matches the pattern.
ParseStatement ==
    /\ scraping.pc = "parse"
    /\ scraping.k < Len(scraping.statements)
    /\ LET match == Search(scraping.statements[scraping.k + 1])
           columns == ColumnsOf(match.columns_str)
           rows == RowsOf(match.values_block) IN
       /\ match.matched
       /\ ~DataFrameRaises(rows, columns)
       /\ scraping' = [scraping EXCEPT
                         !.k = @ + 1,
                         !.dfs = Appended(@, match.table, DataFrame(rows, columns))]
    /\ UNCHANGED <<mainVars, hashing, parsing, attendance>>

\* A statement without match that ends the loop.
SkipStatementBreaks ==
    /\ scraping.pc = "parse"
    /\ scraping.k < Len(scraping.statements)
    /\ ~Search(scraping.statements[scraping.k + 1]).matched
    /\ scraping' = [scraping EXCEPT !.k = Len(scraping.statements)]
    /\ UNCHANGED <<mainVars, hashing, parsing, attendance>>

\* Lines 45-46: if not match: continue.
SkipStatement ==
    /\ scraping.pc = "parse"
    /\ scraping.k < Len(scraping.statements)
    /\ ~Search(scraping.statements[scraping.k + 1]).matched
    /\ scraping' = [scraping EXCEPT !.k = @ + 1]
    /\ UNCHANGED <<mainVars, hashing, parsing, attendance>>

\* Line 76: a statement whose rows do not fit its columns; the ValueError
\* ends scrape_data_from_f1db.
ParseStatementRaises ==
    /\ scraping.pc = "parse"
    /\ scraping.k < Len(scraping.statements)
    /\ LET match == Search(scraping.statements[scraping.k + 1]) IN
       /\ match.matched
       /\ DataFrameRaises(RowsOf(match.values_block), ColumnsOf(match.columns_str))
    /\ scraping' = [scraping EXCEPT !.pc = "raised"]
    /\ UNCHANGED <<mainVars, hashing, parsing, attendance>>

\* Lines 105-117: after the last statement the frames are saved.
SaveFiles ==
    /\ scraping.pc = "parse"
    /\ scraping.k = Len(scraping.statements)
    /\ scraping' = [scraping EXCEPT !.pc = "saved",
                                    !.files = SavedFiles(scraping.dfs)]
    /\ UNCHANGED <<mainVars, hashing, parsing, attendance>>

\* upload.py lines 74-112: the files of the directory are read in the
\* order of os.listdir and the entries sorted.
ListFiles ==
    /\ scraping.pc = "saved"
    /\ \E listing \in Listings(scraping.files) :
         scraping' = [scraping EXCEPT
                        !.pc = "upload",
                        !.data = Sorted(DataOf(listing))]
    /\ UNCHANGED <<mainVars, hashing, parsing, attendance>>

\* The frame to_csv saved under a path.
SavedAt(files, file_path) == (CHOOSE f \in files : f.filename = file_path).saved

\* upload.py lines 113-128: the next entry of the loops whose table is the
\* table of the outer loop is uploaded and its file removed.
UploadFile ==
    /\ scraping.pc = "upload"
    /\ NextPairs(scraping.data, scraping.at) # {}
    /\ LET n == CHOOSE j \in NextPairs(scraping.data, scraping.at) :
                   \A m \in NextPairs(scraping.data, scraping.at) : j <= m
           entry == PairEntry(scraping.data, n) IN
       scraping' = [scraping EXCEPT
                      !.at = n,
                      !.uploaded = Append(@, [table_name |-> entry.table_name,
                                              table_id |-> entry.table_id,
                                              saved |-> SavedAt(scraping.files,
                                                                entry.file_path)]),
                      !.files = {f \in @ : f.filename # entry.file_path}]
    /\ UNCHANGED <<mainVars, hashing, parsing, attendance>>

\* upload.py lines 129-130: the upload of the next entry raises.
UploadFileRaises ==
    /\ scraping.pc = "upload"
    /\ NextPairs(scraping.data, scraping.at) # {}
    /\ scraping' = [scraping EXCEPT !.pc = "raised"]
    /\ UNCHANGED <<mainVars, hashing, parsing, attendance>>

\* upload.py line 113: the loops end.
UploadDone ==
    /\ scraping.pc = "upload"
    /\ NextPairs(scraping.data, scraping.at) = {}
    /\ scraping' = [scraping EXCEPT !.pc = "done"]
    /\ UNCHANGED <<mainVars, hashing, parsing, attendance>>

NextScrape ==
    \/ ReadStatements
    \/ ParseStatement
    \/ SkipStatement
    \/ ParseStatementRaises
    \/ SaveFiles
    \/ ListFiles
    \/ UploadFile
    \/ UploadFileRaises
    \/ UploadDone

SpecScrape == InitScrape /\ [][NextScrape]_vars

\* ------------------------------------------------------------------------
\* The attendance uploader: Attendance.upsert and
\* upload_data_from_f1destinations of f1_attendance/upload.py.  One run reads
\* one frame and upserts its rows in one session, committed at the end.
\* ------------------------------------------------------------------------

Runs == 1..MaxRuns

\* The frames of a run: at most one row per race.
AttendanceFrames ==
    {b \in Batches \cup {<<>>} :
        \A k \in DOMAIN b : k > 1 => b[k - 1].id < b[k].id}

\* Line 106: Attendance(**row.to_dict()), with the column defaults
\* dwh_valid_to = None and dwh_version = 1.
AttendanceRow(row, run) ==
    [race |-> row.id, weekend_attendance |-> row.name,
     dwh_hash |-> Fingerprint(row), dwh_valid_from |-> Now(run),
     dwh_valid_to |-> NULL, dwh_version |-> 1]

\* Lines 107-111: the rows filter_by(race=race, dwh_valid_to=None) matches;
\* .first() takes one of them, in no stated order.
ExistingAttendance(table, race) ==
    {r \in table : r.race = race /\ r.dwh_valid_to = NULL}

\* Lines 113-124 when the query found existing_attendance: nothing on an
\* equal hash, else dwh_valid_from of the found row is set and a row with
\* the next version is added.
AttendanceUpsert(table, existing_attendance, row, run) ==
    IF existing_attendance.dwh_hash = Fingerprint(row) THEN table
    ELSE (table \ {existing_attendance})
         \cup {[existing_attendance EXCEPT !.dwh_valid_from = Now(run)],
               [AttendanceRow(row, run) EXCEPT
                  !.dwh_version = existing_attendance.dwh_version + 1]}

\* The primary key of the table is (race, dwh_version).
AttendanceKeyFree(table, race, version) ==
    \A r \in table : ~(r.race = race /\ r.dwh_version = version)

InitAttendance ==
    /\ store = {}
    /\ Idle
    /\ hashing = NotRun
    /\ parsing = NotRun
    /\ scraping = NotRun
    /\ attendance = [pc |-> "idle", table |-> {}, session |-> {}, run |-> 0,
                     frame |-> <<>>, i |-> 0, failed |-> FALSE]

\* Lines 150-182: a run reads its frame and opens its session.
StartRun ==
    /\ attendance.pc = "idle"
    /\ attendance.run < MaxRuns
    /\ \E b \in AttendanceFrames :
         attendance' = [attendance EXCEPT
                          !.pc = "rows", !.run = @ + 1, !.frame = b, !.i = 0,
                          !.session = attendance.table, !.failed = FALSE]
    /\ UNCHANGED <<mainVars, hashing, parsing, scraping>>

\* Lines 184-186 with 113-124: the upsert of the next row when no current
\* row of the race is stored: the row is added with version 1.  No stored
\* row ever gets a dwh_valid_to, so the race has no stored row at all.
AddAttendance ==
    /\ attendance.pc = "rows"
    /\ attendance.i < Len(attendance.frame)
    /\ LET row == attendance.frame[attendance.i + 1] IN
        /\ ExistingAttendance(attendance.session, row.id) = {}
        /\ attendance' = [attendance EXCEPT
                            !.i = @ + 1,
                            !.session = @ \cup {AttendanceRow(row, attendance.run)}]
    /\ UNCHANGED <<mainVars, hashing, parsing, scraping>>

\* Lines 184-186 with 113-124: the upsert of the next row when the query
\* found a current row of the race.
ReplaceAttendance ==
    /\ attendance.pc = "rows"
    /\ attendance.i < Len(attendance.frame)
    /\ LET row == attendance.frame[attendance.i + 1] IN
        \E existing_attendance \in ExistingAttendance(attendance.session, row.id) :
            /\ \/ existing_attendance.dwh_hash = Fingerprint(row)
               \/ AttendanceKeyFree(attendance.session, row.id,
                                    existing_attendance.dwh_version + 1)
            /\ attendance' = [attendance EXCEPT
                                !.i = @ + 1,
                                !.session = AttendanceUpsert(@, existing_attendance,
                                                             row, attendance.run)]
    /\ UNCHANGED <<mainVars, hashing, parsing, scraping>>

\* Lines 130-134 / 188-189: the row added for the race has the primary key
\* of a stored row; the flush raises, the session is rolled back and the run
\* ends with UploadError.
AttendanceKeyConflict ==
    /\ attendance.pc = "rows"
    /\ attendance.i < Len(attendance.frame)
    /\ LET row == attendance.frame[attendance.i + 1] IN
        \E existing_attendance \in ExistingAttendance(attendance.session, row.id) :
            /\ existing_attendance.dwh_hash # Fingerprint(row)
            /\ ~AttendanceKeyFree(attendance.session, row.id,
                                  existing_attendance.dwh_version + 1)
    /\ attendance' = [attendance EXCEPT
                        !.pc = "idle", !.session = attendance.table, !.failed = TRUE]
    /\ UNCHANGED <<mainVars, hashing, parsing, scraping>>

\* Line 187: session.commit() after the last row.
CommitRun ==
    /\ attendance.pc = "rows"
    /\ attendance.i = Len(attendance.frame)
    /\ attendance' = [attendance EXCEPT !.pc = "idle", !.table = attendance.session]
    /\ UNCHANGED <<mainVars, hashing, parsing, scraping>>

NextAttendance ==
    \/ StartRun
    \/ AddAttendance
    \/ ReplaceAttendance
    \/ AttendanceKeyConflict
    \/ CommitRun

SpecAttendance == InitAttendance /\ [][NextAttendance]_vars

\* ------------------------------------------------------------------------
\* Vocabulary of the properties
\* ------------------------------------------------------------------------

\* The records of a batch have pairwise distinct primary keys.
UniqueKeys(b) == \A j, k \in DOMAIN b : b[j].id = b[k].id => j = k

Started(c) == 1..nstarted[c]

\* Every worker thread of call c has ended (normally or by an exception).
AllTerminated(c) ==
    /\ cpc[c] \notin {"idle", "spawn"}
    /\ \A w \in Started(c) : wpc[c][w] \in {"done", "failed"}

\* The step in which call c returns normally.
Returns(c) == cpc[c] = "sum" /\ cpc'[c] = "returned"

\* The store holds the row of record d: its primary key with its fingerprint.
Holds(st, d) == \E r \in st : r.id = d.id /\ r.dwh_hash = d.dwh_hash

RECURSIVE SumTo(_, _)
SumTo(f, n) == IF n = 0 THEN 0 ELSE f[n] + SumTo(f, n - 1)

\* The store was empty when the first call began: rows are never deleted
\* and only an earlier ingestion stamps instant 0.
StartedEmpty == \A r \in store : r.dwh_valid_from # 0

\* The session of worker w of call c holds an uncommitted insert / update.
PendingInsert(c, w) == pending[c][w] # NoPending /\ pending[c][w][1] = "insert"
PendingUpdate(c, w) == pending[c][w] # NoPending /\ pending[c][w][1] = "update"

\* The step in which worker w of call c commits the record it holds.
Commits(c, w) == wpc[c][w] = "commit" /\ wpc'[c][w] = "get"

\* The step in which upsert returns to worker w of call c.
Upserts(c, w) == wpc[c][w] = "upsert" /\ wpc'[c][w] = "commit"

\* ------------------------------------------------------------------------
\* Properties
\* ------------------------------------------------------------------------

\* C1 (fatal propagation): a call in which a worker thread has ended by an
\* exception never returns normally.
C1_FatalPropagation ==
    [][Returns(1) => \A w \in Started(1) : wpc[1][w] # "failed"]_vars

\* C2 (no partial success): when a call on a unique-key batch returns
\* normally, the store holds the row of every record of the batch.
C2_NoPartialSuccess ==
    [][(Returns(1) /\ UniqueKeys(batch[1]))
         => \A k \in DOMAIN batch[1] : Holds(store', batch[1][k])]_vars

\* C3 (join before aggregation): whenever the coordinator reads the workers'
\* counters or has returned, the queue is empty and every worker thread has
\* ended.
C3_SumsAfterTermination ==
    cpc[1] \in {"sum", "returned"} => work_queue[1] = <<>> /\ AllTerminated(1)

\* C4 (exactly once): with at least two workers, a unique-key batch and no
\* storage error, no record is dequeued or committed twice, a committed
\* record is in the store, and once all workers have ended every record has
\* been dequeued once and committed once.
C4_ExactlyOnce ==
    (num_workers[1] >= 2 /\ UniqueKeys(batch[1]) /\ ~faulted[1]) =>
        /\ \A k \in DOMAIN batch[1] :
            /\ claimed[1][k] <= 1
            /\ committed[1][k] <= claimed[1][k]
            /\ committed[1][k] = 1 => Holds(store, batch[1][k])
        /\ AllTerminated(1) =>
            \A k \in DOMAIN batch[1] : claimed[1][k] = 1 /\ committed[1][k] = 1

\* C4 witness: two workers have ended after committing one record each.
C4_Witness ==
    /\ num_workers[1] = 2 /\ Len(batch[1]) = 2 /\ UniqueKeys(batch[1])
    /\ ~faulted[1] /\ AllTerminated(1)
    /\ processed_count[1][1] = 1 /\ processed_count[1][2] = 1

\* C5 (processed count): when a call returns normally, the row count it
\* reports is the sum of the workers' processed_count.
C5_ProcessedIsSum ==
    [][Returns(1) => i'[1] = SumTo(processed_count'[1], num_workers[1])]_vars

\* C6 (fresh ingestion): a call on a unique-key batch against an empty
\* store, with no storage error, returns processed = modified = batch size.
C6_FreshCounts ==
    [][(Returns(1) /\ UniqueKeys(batch[1]) /\ StartedEmpty /\ ~faulted[1])
         => i'[1] = Len(batch[1]) /\ modified'[1] = Len(batch[1])]_vars

\* C7 (idempotence): when the second call on the same unique-key batch
\* returns, with no storage error in either call, it has created no row
\* (every row is one the first call inserted), modified is 0 and processed
\* is the batch size for both calls.
C7_Idempotent ==
    [][(Returns(2) /\ cpc[1] = "returned" /\ UniqueKeys(batch[1])
          /\ ~faulted[1] /\ ~faulted[2])
         => /\ store' \subseteq {NewRow(batch[1][k]) : k \in DOMAIN batch[1]}
            /\ modified'[2] = 0
            /\ i'[1] = Len(batch[1]) /\ i'[2] = Len(batch[1])]_vars

\* C8 (change propagation): when upsert finds a row with another
\* fingerprint it reports modified, and the commit leaves that row with the
\* record's fields, fingerprint and observed-at instant as modified_at.
C8_ChangePropagation ==
    [][\A w \in Workers :
         LET d == batch[1][cur_row[1][w]]
             ex == Existing(store, d) IN
         /\ (Upserts(1, w) /\ ex # {} /\ \A r \in ex : r.dwh_hash # d.dwh_hash)
              => /\ PendingUpdate(1, w)'
                 /\ modified_count'[1][w] = modified_count[1][w] + 1
         /\ (Commits(1, w) /\ PendingUpdate(1, w))
              => \A r \in Existing(store', d) :
                    /\ r.name = d.name
                    /\ r.dwh_hash = d.dwh_hash
                    /\ r.dwh_modified_at = d.dwh_modified_at]_vars

\* C9 (frame of an update): committing an update leaves valid_from and
\* valid_to of the row as they were, adds no row and leaves the rows of
\* other keys as they were.
C9_UpdateFrame ==
    [][\A w \in Workers :
         (Commits(1, w) /\ PendingUpdate(1, w)) =>
            LET d == batch[1][cur_row[1][w]] IN
            /\ Cardinality(store') = Cardinality(store)
            /\ \A r \in store : r.id # d.id => r \in store'
            /\ \A r \in Existing(store, d) : \E q \in Existing(store', d) :
                  /\ q.dwh_valid_from = r.dwh_valid_from
                  /\ q.dwh_valid_to = r.dwh_valid_to]_vars

\* C9 witness: a row of the earlier ingestion has been updated in place.
C9_Witness ==
    \E r \in store : r.dwh_valid_from = 0 /\ r.dwh_hash # OldRow(r.id).dwh_hash

\* C10 (insert): when upsert finds no row for the key it reports modified
\* and stages one row; committing it adds exactly that row, which carries
\* the record's fields and fingerprint, valid_from = modified_at = the
\* observed-at instant and valid_to null.
C10_InsertNew ==
    [][\A w \in Workers :
         LET d == batch[1][cur_row[1][w]] IN
         /\ (Upserts(1, w) /\ Existing(store, d) = {})
              => /\ PendingInsert(1, w)'
                 /\ modified_count'[1][w] = modified_count[1][w] + 1
         /\ (Commits(1, w) /\ PendingInsert(1, w))
              => /\ Cardinality(store') = Cardinality(store) + 1
                 /\ store \subseteq store'
                 /\ \A r \in store' \ store :
                       /\ r.id = d.id /\ r.name = d.name
                       /\ r.dwh_hash = Fingerprint(d)
                       /\ r.dwh_valid_from = Now(1)
                       /\ r.dwh_modified_at = Now(1)
                       /\ r.dwh_valid_to = NULL]_vars

\* C10 witness: the call has inserted a row.
C10_Witness ==
    \E r \in store : r.dwh_valid_from = Now(1) /\ r.dwh_valid_to = NULL

\* C11 (unchanged record): when the stored row of the key carries the
\* fingerprint of the incoming record, upsert leaves nothing pending and
\* reports no modification; the commit that follows leaves the store as it
\* was and counts the record as processed, not as modified.
C11_UnchangedSkipped ==
    [][\A w \in Workers :
         LET d == batch[1][cur_row[1][w]]
             ex == Existing(store, d) IN
         /\ (Upserts(1, w) /\ ex # {} /\ \A r \in ex : r.dwh_hash = d.dwh_hash)
              => /\ pending'[1][w] = NoPending
                 /\ modified_count'[1][w] = modified_count[1][w]
         /\ (Commits(1, w) /\ pending[1][w] = NoPending)
              => /\ store' = store
                 /\ processed_count'[1][w] = processed_count[1][w] + 1
                 /\ modified_count'[1][w] = modified_count[1][w]]_vars

\* A worker has processed a record and modified none.
C11_Witness ==
    \E w \in Workers : processed_count[1][w] >= 1 /\ modified_count[1][w] = 0

\* C12 (single current version): in every state, over any number of calls
\* and workers and for batches that repeat a key, the store holds at most one
\* row per primary key whose valid_to is null.
C12_SingleCurrentVersion ==
    \A k \in Keys :
        Cardinality({r \in store : r.id = k /\ r.dwh_valid_to = NULL}) <= 1

\* A second insert for a stored key was attempted and rejected.
C12_Witness ==
    \E c \in Calls, w \in Workers :
        /\ exc[c][w] = "IntegrityError"
        /\ \E r \in store : r.id = batch[c][cur_row[c][w]].id /\ r.dwh_valid_to = NULL

\* C13 (transient errors are retried): a worker ended by a transient storage
\* error (OperationalError) was on its last attempt, whether the error came
\* from the lookup or from the commit.
C13_TransientRetried ==
    \A w \in Workers :
        (wpc[1][w] = "failed" /\ exc[1][w] = "OperationalError")
            => take[1][w] = max_retries - 1

\* The step in which a non-transient error is raised in an upsert attempt.
NonTransient(c, w) ==
    /\ wpc[c][w] \in {"upsert", "commit"}
    /\ exc[c][w] = "none"
    /\ exc'[c][w] \in {"SQLAlchemyError", "IntegrityError"}

\* C14 (non-transient errors are fatal): the first non-transient error of an
\* upsert attempt ends the thread with nothing pending and nothing written,
\* without another attempt; an ended thread stays ended and holds no other
\* record.
C14_NonTransientFatal ==
    [][\A w \in Workers :
         /\ NonTransient(1, w)
              => /\ wpc'[1][w] = "failed"
                 /\ take'[1][w] = take[1][w]
                 /\ pending'[1][w] = NoPending
                 /\ store' = store
                 /\ committed' = committed
                 /\ processed_count' = processed_count
         /\ wpc[1][w] = "failed"
              => /\ wpc'[1][w] = "failed"
                 /\ cur_row'[1][w] = cur_row[1][w]
                 /\ store' = store \/ \E v \in Workers \ {w} : Commits(1, v)]_vars

\* A thread was ended by a non-transient error while records were queued.
C14_Witness ==
    \E w \in Workers :
        /\ wpc[1][w] = "failed"
        /\ exc[1][w] = "SQLAlchemyError"
        /\ work_queue[1] # <<>>

\* C15 (invalid worker count): a call on a non-empty frame whose configured
\* worker count is not an integer, is zero or is negative has raised, with
\* nothing enqueued: it never waits.
C15_InvalidWorkerCountFailsFast ==
    (/\ cpc[1] # "idle"
     /\ df[1] # <<>>
     /\ configured[1][1] = "text" \/ configured[1][2] <= 0)
        => cpc[1] = "raised" /\ work_queue[1] = <<>> /\ total_rows[1] = 0

\* What a no-op success of call 1 leaves: returned, nothing queued, no thread
\* started, the store as it was.
NoOpSuccess ==
    /\ cpc'[1] = "returned"
    /\ work_queue'[1] = <<>>
    /\ nstarted'[1] = 0
    /\ \A w \in Workers : wpc'[1][w] = "new"
    /\ store' = store

\* C16 (empty input), as stated: a call given zero records is a no-op
\* success.
C16_EmptyIsNoOp ==
    [][(df'[1] = <<>> /\ cpc'[1] # "idle") => NoOpSuccess]_vars

\* C16, amended: a call given zero records whose configured worker count
\* int() accepts is a no-op success.
C16_EmptyIsNoOpWhenConfigured ==
    [][(df'[1] = <<>> /\ cpc'[1] # "idle" /\ configured'[1][1] = "int")
          => NoOpSuccess]_vars

\* A call given zero records has returned and the store holds rows.
C16_Witness ==
    df[1] = <<>> /\ cpc[1] = "returned" /\ store # {}

\* No field of the row is absent.
AllText(row) == \A k \in DOMAIN row : row[k].kind = "text"

\* C17 (fingerprint discrimination): two rows of the same columns whose
\* fields are all texts have equal fingerprints if and only if their field
\* values are equal, whatever the instants of the two calls.
C17_FingerprintDiscriminates ==
    (/\ hashing # NotRun
     /\ hashing.pc = "tracked"
     /\ AllText(hashing.rows[1]) /\ AllText(hashing.rows[2]))
        => (hashing.out[1].dwh_hash = hashing.out[2].dwh_hash
              <=> hashing.rows[1] = hashing.rows[2])

\* C18 (null normalization precedes fingerprinting): two rows that are equal
\* once np.nan is replaced by None have equal fingerprints.
C18_AbsenceNormalizedBeforeHash ==
    (/\ hashing # NotRun
     /\ hashing.pc = "tracked"
     /\ ReplaceNaN(hashing.rows[1]) = ReplaceNaN(hashing.rows[2]))
        => hashing.out[1].dwh_hash = hashing.out[2].dwh_hash

\* The split gave the tokens of the one tuple exactly as they were written.
TokensAsWritten ==
    /\ Len(parsing.rows) = 1
    /\ parsing.rows[1].tokens = [k \in DOMAIN parsing.written |-> parsing.written[k].src]

\* The field f is the value the written value w stands for.
Meant(w, f) ==
    CASE w.kind = "null" -> f = NoneField
      [] w.kind = "quoted" -> f = StrField(w.val)
      [] w.kind = "float" -> f.type = "float"
      [] w.kind = "int" -> f.type = "int"
      [] w.kind = "text" -> f = StrField(w.src)

\* C19 (type inference): every token gets the value of its kind: null for
\* the NULL keyword in any case and for the empty token, the text with each
\* escaped quote as one quote for a quoted literal, a float, an integer, and
\* otherwise the token itself.
C19_TypeInference ==
    (parsing # NotRun /\ parsing.pc = "rows" /\ TokensAsWritten)
        => \A k \in DOMAIN parsing.written :
               Meant(parsing.written[k], parsing.rows[1].parts[k])

\* The written value is a quoted literal with a comma or a parenthesis in it.
HasSeparator(w) ==
    w.kind = "quoted" /\ \E j \in DOMAIN w.val : w.val[j] \in {",", "(", ")"}

\* C20 (quote-safety): a tuple with a comma or a parenthesis inside a quoted
\* literal is extracted as one tuple, and its split gives one token per
\* written value.
C20_QuoteSafe ==
    (/\ parsing # NotRun
     /\ \E k \in DOMAIN parsing.written : HasSeparator(parsing.written[k]))
        => /\ parsing.pc # "block" => parsing.value_tuples = <<parsing.values_block>>
           /\ parsing.pc = "rows" => TokensAsWritten

\* C23 (no false worker-died failure): a call whose worker count int()
\* accepted has raised only if one of its workers ended through a failure.
C23_NoFalseWorkerDied ==
    (cpc[1] = "raised" /\ configured[1][1] = "int")
        => \E w \in Started(1) : wpc[1][w] = "failed"

\* The step in which a worker goes back to a record after a failed commit.
Retries(c, w) == wpc[c][w] = "commit" /\ wpc'[c][w] = "upsert"

\* C24 (retry bound): a worker makes at most 3 attempts for the record it
\* holds (take counts them from 0), a retry keeps the record, the third
\* attempt is not followed by another one, and an ended worker never holds
\* another record.
C24_RetryBound ==
    [][\A w \in Workers :
         /\ take'[1][w] < 3
         /\ Retries(1, w)
              => /\ cur_row'[1][w] = cur_row[1][w]
                 /\ take'[1][w] = take[1][w] + 1
                 /\ claimed' = claimed
         /\ (wpc[1][w] = "commit" /\ take[1][w] = 2) => wpc'[1][w] \in {"commit", "get", "failed"}
         /\ wpc[1][w] = "failed" => wpc'[1][w] = "failed" /\ cur_row'[1][w] = cur_row[1][w]]_vars

\* A worker ended after the third attempt while records were still queued.
C24_Witness ==
    \E w \in Workers :
        /\ wpc[1][w] = "failed"
        /\ exc[1][w] = "OperationalError"
        /\ take[1][w] = 2
        /\ work_queue[1] # <<>>

\* C25 (counter accuracy under retries): a worker that is between records
\* has modified_count <= processed_count.
C25_ModifiedAtMostProcessed ==
    \A w \in Workers :
        wpc[1][w] \in {"get", "done"} => modified_count[1][w] <= processed_count[1][w]

\* The last record of the batch b that carries the key of b[k].
LastOfKey(b, k) == b[Max({j \in DOMAIN b : b[j].id = b[k].id})]

\* No storage error was raised by the environment in a worker of call c (a
\* rejected duplicate insert is not one).
NoStorageError(c) == \A w \in Workers : exc[c][w] \in {"none", "IntegrityError"}

\* C26 (duplicate keys in one batch): when every worker of a call on a
\* batch that repeats a key has ended and the environment raised no storage
\* error, no worker has failed and the store holds, for every key of the
\* batch, the values and the fingerprint of the last record of that key.
C26_DuplicateKeysLastWins ==
    (/\ num_workers[1] >= 1
     /\ batch[1] # <<>>
     /\ ~UniqueKeys(batch[1])
     /\ AllTerminated(1)
     /\ NoStorageError(1))
        => /\ \A w \in Started(1) : wpc[1][w] = "done"
           /\ \A k \in DOMAIN batch[1] : Holds(store, LastOfKey(batch[1], k))

\* C28 (quiescence after the call): once the call has returned or raised,
\* no record is dequeued and the store does not change.
C28_QuiescentAfterCall ==
    [][Finished(1) => store' = store /\ work_queue' = work_queue]_vars

\* C27 (termination): a call with a worker count >= 1 on a non-empty batch
\* eventually has returned or raised with every worker ended, whatever
\* storage errors occur.
C27_Terminates ==
    (cpc[1] # "idle" /\ num_workers[1] >= 1 /\ df[1] # <<>>)
        ~> (Finished(1) /\ AllTerminated(1))

\* A call has raised after a storage error, one worker failed and another
\* drained the queue.
C27_Witness ==
    /\ cpc[1] = "raised"
    /\ AllTerminated(1)
    /\ \E w \in Started(1) : wpc[1][w] = "failed"
    /\ \E w \in Started(1) : wpc[1][w] = "done"

\* C29 (sequential batches): when the ingestion of the next batch has begun
\* after the previous call returned, every record of the previous batch has
\* been committed and no worker of the previous batch is still running.
C29_SequentialBatches ==
    (cpc[1] = "returned" /\ cpc[2] # "idle")
        => /\ \A k \in DOMAIN batch[1] : committed[1][k] >= 1
           /\ \A w \in Workers : ~IsAlive(1, w)

\* C30 (attendance versioning): in the table that the runs of the attendance
\* uploader have committed, every race has at most one row with
\* dwh_valid_to = null and the versions of its rows are pairwise distinct,
\* and no run has failed.
C30_AttendanceVersioning ==
    attendance # NotRun =>
        /\ \A race \in Keys :
              Cardinality(ExistingAttendance(attendance.table, race)) <= 1
        /\ \A r, q \in attendance.table :
              (r.race = q.race /\ r.dwh_version = q.dwh_version) => r = q
        /\ ~attendance.failed

\* The statements of a written file that are well formed and of a table.
WrittenOf(written, table) ==
    SelectSeq(written, LAMBDA w : w.kind = "statement" /\ w.table = table)

\* The records a written statement stands for: one per tuple, in the order
\* of the tuples, each with the values of its cells.
RecordsOf(w) ==
    [columns |-> w.columns,
     rows |-> [r \in DOMAIN w.rows |->
                 [c \in DOMAIN w.rows[r] |-> CellField(w.rows[r][c])]]]

\* The record groups of a table in a written file, in statement order.
WrittenGroups(written, table) ==
    [g \in DOMAIN WrittenOf(written, table) |->
       RecordsOf(WrittenOf(written, table)[g])]

WrittenTables(written) ==
    {written[k].table : k \in {j \in DOMAIN written : written[j].kind = "statement"}}

HasKind(written, kind) == \E k \in DOMAIN written : written[k].kind = kind

\* The loop over the statements has ended.
ParsedAll ==
    scraping.pc # "read" /\ scraping.k = Len(scraping.statements)

\* C21 (parser permissiveness): the lines that do not begin with
\* INSERT INTO and the statements without the INSERT INTO table (columns)
\* VALUES tuples shape are passed over without an exception, and the record
\* groups parsed are those of the remaining statements of the file, as if
\* the others were absent.
C21_Permissive ==
    scraping # NotRun =>
        /\ ParsedAll =>
             /\ DOMAIN scraping.dfs = WrittenTables(scraping.written)
             /\ \A table \in DOMAIN scraping.dfs :
                  scraping.dfs[table] = WrittenGroups(scraping.written, table)
        /\ (scraping.pc = "raised" /\ scraping.k < Len(scraping.statements))
             => HasKind(scraping.written, "mismatched")

C21_Witness ==
    /\ scraping # NotRun
    /\ ParsedAll
    /\ Len(scraping.written) = 3
    /\ scraping.written[1].kind = "other"
    /\ scraping.written[2].kind = "malformed"
    /\ scraping.written[3].kind = "statement"
    /\ Len(scraping.statements) = 2
    /\ DOMAIN scraping.dfs # {}

\* The frames uploaded for a table, in the order of their upload.
UploadedOf(table) ==
    LET us == SelectSeq(scraping.uploaded, LAMBDA u : u.table_name = table) IN
    [k \in DOMAIN us |-> us[k].saved]

IsPrefix(a, b) == Len(a) <= Len(b) /\ a = SubSeq(b, 1, Len(a))

\* C22 (output ordering): the frames uploaded for a table are, in the order
\* of their upload, the record groups of the statements of the table in
\* the order of the statements, each with its records in the order of its
\* tuples; when the upload has ended every group has been uploaded.
C22_StatementOrder ==
    (scraping # NotRun /\ scraping.pc \in {"upload", "done", "raised"}) =>
        \A t \in DOMAIN TABLES_MAP :
            /\ IsPrefix(UploadedOf(TABLES_MAP[t]),
                        WrittenGroups(scraping.written, TABLES_MAP[t]))
            /\ scraping.pc = "done" =>
                 UploadedOf(TABLES_MAP[t])
                   = WrittenGroups(scraping.written, TABLES_MAP[t])

C22_Witness ==
    /\ scraping # NotRun
    /\ scraping.pc = "done"
    /\ Len(scraping.uploaded) = 3
    /\ scraping.written[2].table = engine_manufacturer
    /\ Len(UploadedOf(engine)) = 2
    /\ UploadedOf(engine)[1] # UploadedOf(engine)[2]
    /\ Len(UploadedOf(engine)[1].rows) = 2

====
